---- MODULE Spec2Model ----
(***************************************************************************)
(* A model of the distributed hospital demo: the coordinator's patient     *)
(* index (coordinator/app.py), the emergency service (emergency/app.py),   *)
(* the pharmacy (pharmacy/app.py) and radiology (radiology/app.py).        *)
(*                                                                         *)
(* A JSON request body is a function from the keys it holds to their       *)
(* values: `k in data` is k \in DOMAIN data, data.get(k) is Get(data, k).  *)
(* A table is a sequence of rows; a row's autoincrement primary key is its *)
(* position, and no handler of the repository deletes a row.               *)
(* A handler that reads, decides and writes in separate database round     *)
(* trips and can race with itself (sync_patient, dispense_prescription)    *)
(* is split at the point between its reads and its commit; the request     *)
(* holds the rows it loaded in between.                                    *)
(***************************************************************************)
EXTENDS Integers, Sequences, FiniteSets, Bags, TLC

VARIABLES
    medications,      \* pharmacy: table medications
    prescriptions,    \* pharmacy: table prescriptions
    disp,             \* pharmacy: worker threads inside dispense_prescription
    presp,            \* pharmacy: the last response sent
    orders,           \* radiology: table radiology_orders
    rresp,            \* radiology: the last response sent
    patients,         \* emergency: table patients
    visits,           \* emergency: table emergency_visits
    creating,         \* emergency: creating[i] is the POST /patients request that made patient i
    eresp,            \* emergency: the last response sent
    patient_index,    \* coordinator: table patient_index
    sync,             \* coordinator: the requests inside sync_patient, a bag
    cresp,            \* coordinator: the last response sent
    now,              \* coordinator: datetime.utcnow(), a logical clock
    appointments,     \* coordinator: table appointments
    view              \* coordinator: what the last page was rendered with

pharmacy_vars == <<medications, prescriptions, disp, presp>>
radiology_vars == <<orders, rresp>>
emergency_vars == <<patients, visits, creating, eresp>>
coordinator_vars == <<patient_index, sync, cresp, now>>
ui_vars == <<appointments, view>>

vars == <<medications, prescriptions, disp, presp, orders, rresp,
          patients, visits, creating, eresp, patient_index, sync, cresp, now,
          appointments, view>>

\* JSON null / Python None, and the values `not x` holds for.
Null == "null"
Empty == ""

\* data.get(k): the value, None when the key is absent.
Get(data, k) == IF k \in DOMAIN data THEN data[k] ELSE Null

\* data.get(k, d)
GetOr(data, k, d) == IF k \in DOMAIN data THEN data[k] ELSE d

\* all(k in data for k in required)
HasAll(data, required) == \A i \in DOMAIN required : required[i] \in DOMAIN data

\* The bodies {k: full[k] for k in S}, S any subset of full's keys.
Restrict(full, S) == [k \in S |-> full[k]]

NoResp == [op |-> "none", code |-> 0]

(***************************************************************************)
(* Pharmacy                                                                *)
(***************************************************************************)
MaxMeds == 1
MaxRx == 2

\* The worker threads of the pharmacy's HTTP server that can be inside
\* dispense_prescription at the same time.
Dispensers == {"w1", "w2"}

\* The values the request bodies are drawn from. A stock is any JSON integer:
\* add_medication stores what it is sent.
MedNames == {Empty, "aspirin"}
Strengths == {"10mg"}
Stocks == {-1, 2}
Quantities == {1, 2}
PatientNames == {"Jane Doe"}

MedicationBodies ==
    { Restrict([name |-> n, strength |-> s, stock |-> k], S) :
        n \in MedNames, s \in Strengths, k \in Stocks,
        S \in {T \cup {"strength"} : T \in SUBSET {"name", "stock"}} }

PrescriptionBodies ==
    { Restrict([patient_name |-> p, medication_id |-> m, quantity |-> q], S) :
        p \in PatientNames, m \in 1 .. (MaxMeds + 1), q \in Quantities,
        S \in SUBSET {"patient_name", "medication_id", "quantity"} }

PrescriptionRequired == <<"patient_name", "medication_id", "quantity">>

IdleDispenser == [pc |-> "idle", rx_id |-> 0, status |-> "none", stock |-> 0]

\* POST /medications
add_medication(data) ==
    LET name == Get(data, "name") IN
    /\ IF name = Null \/ name = Empty
       THEN /\ presp' = [op |-> "add_medication", code |-> 400]
            /\ UNCHANGED medications
       ELSE /\ Len(medications) < MaxMeds
            /\ medications' = Append(medications,
                   [name |-> name,
                    strength |-> Get(data, "strength"),
                    stock |-> GetOr(data, "stock", 0)])
            /\ presp' = [op |-> "add_medication", code |-> 201]
    /\ UNCHANGED <<ui_vars, prescriptions, disp, radiology_vars, emergency_vars, coordinator_vars>>

\* POST /prescriptions without the lookup of the medication.
create_prescription_NoLookup(data) ==
    /\ IF ~HasAll(data, PrescriptionRequired)
       THEN /\ presp' = [op |-> "create_prescription", code |-> 400]
            /\ UNCHANGED prescriptions
       ELSE /\ Len(prescriptions) < MaxRx
            /\ prescriptions' = Append(prescriptions,
                   [patient_name |-> data["patient_name"],
                    medication_id |-> data["medication_id"],
                    quantity |-> data["quantity"],
                    status |-> "new"])
            /\ presp' = [op |-> "create_prescription", code |-> 201]
    /\ UNCHANGED <<ui_vars, medications, disp, radiology_vars, emergency_vars, coordinator_vars>>

\* POST /prescriptions
create_prescription(data) ==
    /\ IF ~HasAll(data, PrescriptionRequired)
       THEN /\ presp' = [op |-> "create_prescription", code |-> 400]
            /\ UNCHANGED prescriptions
       ELSE IF data["medication_id"] \notin DOMAIN medications
       THEN /\ presp' = [op |-> "create_prescription", code |-> 404]
            /\ UNCHANGED prescriptions
       ELSE /\ Len(prescriptions) < MaxRx
            /\ prescriptions' = Append(prescriptions,
                   [patient_name |-> data["patient_name"],
                    medication_id |-> data["medication_id"],
                    quantity |-> data["quantity"],
                    status |-> "new"])
            /\ presp' = [op |-> "create_prescription", code |-> 201]
    /\ UNCHANGED <<ui_vars, medications, disp, radiology_vars, emergency_vars, coordinator_vars>>

\* The stock check off by one: a stock one short of the quantity passes.
NotEnoughStock_OffByOne(stock, quantity) == stock + 1 < quantity

\* med.stock < rx.quantity
NotEnoughStock(stock, quantity) == stock < quantity

\* med.stock -= rx.quantity, on the value the session loaded
StockAfterDispense(stock, quantity) == stock - quantity

\* The same made to wait while another worker is between its stock check
\* and its commit (the rows read under a lock held until the commit).
dispense_prescription_check_Locked(t, rx_id) ==
    /\ disp[t].pc = "idle"
    /\ \A u \in Dispensers : disp[u].pc # "commit"
    /\ IF rx_id \notin DOMAIN prescriptions
       THEN /\ presp' = [op |-> "dispense_prescription", code |-> 404]
            /\ UNCHANGED disp
       ELSE LET rx == prescriptions[rx_id]
                med == medications[rx.medication_id] IN
            IF NotEnoughStock(med.stock, rx.quantity)
            THEN /\ presp' = [op |-> "dispense_prescription", code |-> 400]
                 /\ UNCHANGED disp
            ELSE /\ disp' = [disp EXCEPT ![t] =
                        [pc |-> "commit", rx_id |-> rx_id,
                         status |-> rx.status, stock |-> med.stock]]
                 /\ UNCHANGED presp
    /\ UNCHANGED <<ui_vars, medications, prescriptions, radiology_vars, emergency_vars, coordinator_vars>>

\* PUT /prescriptions/<rx_id>/dispense, up to the stock check: the session
\* loads the prescription and, through rx.medication, its medication.
dispense_prescription_check(t, rx_id) ==
    /\ disp[t].pc = "idle"
    /\ IF rx_id \notin DOMAIN prescriptions
       THEN /\ presp' = [op |-> "dispense_prescription", code |-> 404]
            /\ UNCHANGED disp
       ELSE LET rx == prescriptions[rx_id]
                med == medications[rx.medication_id] IN
            IF NotEnoughStock(med.stock, rx.quantity)
            THEN /\ presp' = [op |-> "dispense_prescription", code |-> 400]
                 /\ UNCHANGED disp
            ELSE /\ disp' = [disp EXCEPT ![t] =
                        [pc |-> "commit", rx_id |-> rx_id,
                         status |-> rx.status, stock |-> med.stock]]
                 /\ UNCHANGED presp
    /\ UNCHANGED <<ui_vars, medications, prescriptions, radiology_vars, emergency_vars, coordinator_vars>>

\* ... and from the decrement to the commit: the flush writes the stock the
\* session computed from the value it loaded, and the status.
dispense_prescription_commit(t) ==
    /\ disp[t].pc = "commit"
    /\ LET rx == prescriptions[disp[t].rx_id] IN
       /\ medications' = [medications EXCEPT ![rx.medication_id].stock =
              StockAfterDispense(disp[t].stock, rx.quantity)]
       /\ prescriptions' = [prescriptions EXCEPT ![disp[t].rx_id].status = "dispensed"]
    /\ disp' = [disp EXCEPT ![t] = IdleDispenser]
    /\ presp' = [op |-> "dispense_prescription", code |-> 200]
    /\ UNCHANGED <<ui_vars, radiology_vars, emergency_vars, coordinator_vars>>

PharmacyInit ==
    /\ medications = <<>>
    /\ prescriptions = <<>>
    /\ disp = [t \in Dispensers |-> IdleDispenser]
    /\ presp = NoResp

PharmacyNext ==
    \/ \E data \in MedicationBodies : add_medication(data)
    \/ \E data \in PrescriptionBodies : create_prescription(data)
    \/ \E t \in Dispensers, rx_id \in 1 .. (MaxRx + 1) : dispense_prescription_check(t, rx_id)
    \/ \E t \in Dispensers : dispense_prescription_commit(t)

(***************************************************************************)
(* Radiology                                                               *)
(***************************************************************************)
MaxOrders == 2

Modalities == {"CT"}
BodyParts == {"chest"}
Reports == {Null, "normal", "fracture"}

OrderBodies ==
    { Restrict([patient_name |-> p, modality |-> m, body_part |-> b], S) :
        p \in PatientNames, m \in Modalities, b \in BodyParts,
        S \in SUBSET {"patient_name", "modality", "body_part"} }

\* request.json or {} of PUT /orders/<id>/complete: no report key, or a
\* report that is null or a text.
CompleteBodies == { Restrict([report |-> r], S) : r \in Reports, S \in SUBSET {"report"} }

OrderRequired == <<"patient_name", "modality">>

\* POST /orders
create_order(data) ==
    /\ IF ~HasAll(data, OrderRequired)
       THEN /\ rresp' = [op |-> "create_order", code |-> 400]
            /\ UNCHANGED orders
       ELSE /\ Len(orders) < MaxOrders
            /\ orders' = Append(orders,
                   [patient_name |-> data["patient_name"],
                    modality |-> data["modality"],
                    body_part |-> Get(data, "body_part"),
                    status |-> "ordered",
                    report |-> Null])
            /\ rresp' = [op |-> "create_order", code |-> 201]
    /\ UNCHANGED <<ui_vars, pharmacy_vars, emergency_vars, coordinator_vars>>

\* The first report stays: a report is attached only while there is none.
ReportAfterComplete_FirstWins(body, report) ==
    IF report = Null THEN GetOr(body, "report", report) ELSE report

\* (request.json or {}).get("report", order.report)
ReportAfterComplete(body, report) == GetOr(body, "report", report)

\* PUT /orders/<order_id>/complete
complete_order(order_id, body) ==
    /\ IF order_id \notin DOMAIN orders
       THEN /\ rresp' = [op |-> "complete_order", code |-> 404]
            /\ UNCHANGED orders
       ELSE /\ orders' = [orders EXCEPT
                   ![order_id].status = "completed",
                   ![order_id].report = ReportAfterComplete(body, orders[order_id].report)]
            /\ rresp' = [op |-> "complete_order", code |-> 200]
    /\ UNCHANGED <<ui_vars, pharmacy_vars, emergency_vars, coordinator_vars>>

RadiologyInit ==
    /\ orders = <<>>
    /\ rresp = NoResp

RadiologyNext ==
    \/ \E data \in OrderBodies : create_order(data)
    \/ \E order_id \in 1 .. (MaxOrders + 1), body \in CompleteBodies :
          complete_order(order_id, body)

(***************************************************************************)
(* Coordinator: the patient index                                          *)
(***************************************************************************)
\* The sync requests that get past validation, which bounds the clock and
\* the rows of patient_index.
MaxSyncs == 2

LocalIds == {1, 2}
Departments == {"emergency", "radiology"}
Names == {"Ann", "Bob"}
Dobs == {"1999-01-01"}
Contacts == {"555-1234"}

SyncKeys == {"local_patient_id", "department", "name", "dob", "contact_info"}

\* The bodies the callers send. The two optional keys are handled alike
\* (data.get); the bodies drawn here leave out dob or not, and all carry
\* contact_info.
SyncBodies ==
    { Restrict([local_patient_id |-> l, department |-> d, name |-> n,
                dob |-> b, contact_info |-> c], S \cup {"contact_info"}) :
        l \in LocalIds, d \in Departments, n \in Names, b \in Dobs, c \in Contacts,
        S \in SUBSET (SyncKeys \ {"contact_info"}) }

SyncRequired == <<"local_patient_id", "department", "name">>

\* No row: what .first() returns as None, and the patient of a response that
\* carries none.
NoRow ==
    [global_id |-> 0, local_patient_id |-> 0, department |-> Null, name |-> Null,
     dob |-> Null, contact_info |-> Null, last_updated |-> 0]

\* The rows filter_by(...) matches on the department only.
Matching_DepartmentOnly(local_id, dept) ==
    { g \in DOMAIN patient_index : patient_index[g].department = dept }

\* PatientIndex.query.filter_by(local_patient_id=local_id, department=dept)
Matching(local_id, dept) ==
    { g \in DOMAIN patient_index :
        /\ patient_index[g].local_patient_id = local_id
        /\ patient_index[g].department = dept }

\* The upsert that always inserts.
Upserted_AlwaysInsert(loaded, data, time) ==
    [global_id |-> Len(patient_index) + 1,
     local_patient_id |-> data["local_patient_id"],
     department |-> data["department"],
     name |-> data["name"],
     dob |-> Get(data, "dob"),
     contact_info |-> Get(data, "contact_info"),
     last_updated |-> time]

\* The upsert whose update keeps the stored value of an optional field the
\* body does not carry.
Upserted_KeepsMissing(loaded, data, time) ==
    IF loaded = NoRow
    THEN [global_id |-> Len(patient_index) + 1,
          local_patient_id |-> data["local_patient_id"],
          department |-> data["department"],
          name |-> data["name"],
          dob |-> Get(data, "dob"),
          contact_info |-> Get(data, "contact_info"),
          last_updated |-> time]
    ELSE [loaded EXCEPT !.name = data["name"],
                        !.dob = GetOr(data, "dob", loaded.dob),
                        !.contact_info = GetOr(data, "contact_info", loaded.contact_info),
                        !.last_updated = time]

\* The object sync_patient holds before the commit: a new PatientIndex (the
\* autoincrement key is the table's next), or the loaded one with its
\* mutable fields assigned.
Upserted(loaded, data, time) ==
    IF loaded = NoRow
    THEN [global_id |-> Len(patient_index) + 1,
          local_patient_id |-> data["local_patient_id"],
          department |-> data["department"],
          name |-> data["name"],
          dob |-> Get(data, "dob"),
          contact_info |-> Get(data, "contact_info"),
          last_updated |-> time]
    ELSE [loaded EXCEPT !.name = data["name"],
                        !.dob = Get(data, "dob"),
                        !.contact_info = Get(data, "contact_info"),
                        !.last_updated = time]

\* db.session.commit() of that object: an INSERT of the new row, or an UPDATE
\* of the loaded row's primary key that sets the columns whose value differs
\* from the loaded one (the unit of work writes net changes only).
Flushed(loaded, obj) ==
    IF obj.global_id \notin DOMAIN patient_index
    THEN Append(patient_index, obj)
    ELSE [patient_index EXCEPT ![obj.global_id] =
            [c \in DOMAIN obj |->
                IF obj[c] # loaded[c] THEN obj[c] ELSE patient_index[obj.global_id][c]]]

\* sync_patient up to the query: validation, then .first() of the matching
\* rows (any of them: the query has no ORDER BY). The coordinator's part of
\* the step; the caller is 0 for a department other than the emergency
\* service's create_patient, which passes the patient it is creating.
SyncQuery(data, caller) ==
    IF ~HasAll(data, SyncRequired)
    THEN /\ cresp' = [op |-> "sync_patient", code |-> 400, patient |-> NoRow]
         /\ UNCHANGED <<patient_index, sync, now>>
    ELSE /\ now + BagCardinality(sync) <= MaxSyncs
         /\ LET hits == Matching(data["local_patient_id"], data["department"]) IN
            \E loaded \in IF hits = {} THEN {NoRow} ELSE { patient_index[g] : g \in hits } :
               sync' = sync (+) SetToBag({[data |-> data, loaded |-> loaded, caller |-> caller]})
         /\ UNCHANGED <<patient_index, cresp, now>>

(***************************************************************************)
(* Emergency                                                               *)
(***************************************************************************)
MaxPatients == 2
MaxVisits == 1

DEPARTMENT_NAME == "emergency"

EmergencyNames == {Empty, "Jane Doe"}
Symptoms == {"chest pain"}
TriageLevels == {"high"}

PatientBodies ==
    { Restrict([name |-> n, dob |-> b, contact_info |-> c], S \cup {"contact_info"}) :
        n \in EmergencyNames, b \in Dobs, c \in Contacts,
        S \in SUBSET {"name", "dob"} }

VisitBodies ==
    { Restrict([patient_id |-> i, symptoms |-> y, triage_level |-> l], S) :
        i \in 1 .. (MaxPatients + 1), y \in Symptoms, l \in TriageLevels,
        S \in SUBSET {"patient_id", "symptoms", "triage_level"} }

VisitRequired == <<"patient_id", "symptoms", "triage_level">>

\* A failed sync fails the request.
create_patient_status_Propagate(outcome) == IF outcome = "ok" THEN 201 ELSE 502

\* The status create_patient answers with, whatever the try block saw:
\* "ok" (a 200 or 201), "error" (another status), "exception" (the call
\* raised without reaching the coordinator) or "timeout" (it raised while
\* the coordinator held the request).
create_patient_status(outcome) == 201

\* The payload carries the id of the newest patient row.
SyncPayload_LastId(id) ==
    [local_patient_id |-> Len(patients),
     department |-> DEPARTMENT_NAME,
     name |-> patients[id].name,
     dob |-> patients[id].dob,
     contact_info |-> patients[id].contact_info]

\* The payload built without the dob.
SyncPayload_NoDob(id) ==
    [local_patient_id |-> id,
     department |-> DEPARTMENT_NAME,
     name |-> patients[id].name,
     dob |-> Null,
     contact_info |-> patients[id].contact_info]

\* The payload create_patient builds from the row it committed.
SyncPayload(id) ==
    [local_patient_id |-> id,
     department |-> DEPARTMENT_NAME,
     name |-> patients[id].name,
     dob |-> patients[id].dob,
     contact_info |-> patients[id].contact_info]

\* POST /patients up to the commit of the local row.
create_patient(data) ==
    LET name == Get(data, "name") IN
    /\ IF name = Null \/ name = Empty
       THEN /\ eresp' = [op |-> "create_patient", code |-> 400, id |-> 0, required |-> <<>>]
            /\ UNCHANGED <<patients, creating>>
       ELSE /\ Len(patients) < MaxPatients
            /\ patients' = Append(patients,
                   [name |-> name,
                    dob |-> Get(data, "dob"),
                    contact_info |-> Get(data, "contact_info")])
            /\ creating' = Append(creating, [pc |-> "sync", sync |-> "none", code |-> 0])
            /\ UNCHANGED eresp
    /\ UNCHANGED <<ui_vars, pharmacy_vars, radiology_vars, coordinator_vars, visits>>

\* The sync call in a retry loop: a failed call is made again.
Respond_Retry(id, outcome) ==
    IF outcome = "ok"
    THEN /\ creating' = [creating EXCEPT ![id] =
                [pc |-> "done", sync |-> outcome, code |-> create_patient_status(outcome)]]
         /\ eresp' = [op |-> "create_patient", code |-> create_patient_status(outcome),
                      id |-> id, required |-> <<>>]
         /\ UNCHANGED <<patients, visits>>
    ELSE /\ creating' = [creating EXCEPT ![id] = [pc |-> "sync", sync |-> outcome, code |-> 0]]
         /\ UNCHANGED <<patients, visits, eresp>>

\* The end of create_patient: the try block is over with `outcome`, and the
\* response goes out. Nothing else is written.
Respond(id, outcome) ==
    /\ creating' = [creating EXCEPT ![id] =
           [pc |-> "done", sync |-> outcome, code |-> create_patient_status(outcome)]]
    /\ eresp' = [op |-> "create_patient", code |-> create_patient_status(outcome),
                 id |-> id, required |-> <<>>]
    /\ UNCHANGED <<patients, visits>>

\* requests.post(.../sync/patient) reaches the coordinator, which runs
\* sync_patient up to its query (or answers 400).
create_patient_post(id) ==
    /\ id \in DOMAIN creating
    /\ creating[id].pc = "sync"
    /\ SyncQuery(SyncPayload(id), id)
    /\ IF HasAll(SyncPayload(id), SyncRequired)
       THEN /\ creating' = [creating EXCEPT ![id].pc = "wait"]
            /\ UNCHANGED <<patients, visits, eresp>>
       ELSE Respond(id, "error")
    /\ UNCHANGED <<ui_vars, pharmacy_vars, radiology_vars>>

\* requests.post raises before the coordinator gets the request (connection
\* refused, unreachable).
create_patient_unreachable(id) ==
    /\ id \in DOMAIN creating
    /\ creating[id].pc = "sync"
    /\ Respond(id, "exception")
    /\ UNCHANGED <<ui_vars, pharmacy_vars, radiology_vars, coordinator_vars>>

\* requests.post raises after timeout=3 while the coordinator still holds the
\* request; the coordinator goes on with it.
create_patient_timeout(id) ==
    /\ id \in DOMAIN creating
    /\ creating[id].pc = "wait"
    /\ Respond(id, "timeout")
    /\ UNCHANGED <<ui_vars, pharmacy_vars, radiology_vars, coordinator_vars>>

\* POST /visits with triage_level taken as optional.
create_visit_OptionalTriage(data) ==
    /\ IF ~HasAll(data, <<"patient_id", "symptoms">>)
       THEN /\ eresp' = [op |-> "create_visit", code |-> 400, id |-> 0,
                         required |-> VisitRequired]
            /\ UNCHANGED visits
       ELSE IF data["patient_id"] \notin DOMAIN patients
       THEN /\ eresp' = [op |-> "create_visit", code |-> 404, id |-> 0, required |-> <<>>]
            /\ UNCHANGED visits
       ELSE /\ Len(visits) < MaxVisits
            /\ visits' = Append(visits,
                   [patient_id |-> data["patient_id"],
                    symptoms |-> data["symptoms"],
                    triage_level |-> Get(data, "triage_level")])
            /\ eresp' = [op |-> "create_visit", code |-> 201, id |-> Len(visits) + 1,
                         required |-> <<>>]
    /\ UNCHANGED <<ui_vars, pharmacy_vars, radiology_vars, coordinator_vars, patients, creating>>

\* POST /visits
create_visit(data) ==
    /\ IF ~HasAll(data, VisitRequired)
       THEN /\ eresp' = [op |-> "create_visit", code |-> 400, id |-> 0,
                         required |-> VisitRequired]
            /\ UNCHANGED visits
       ELSE IF data["patient_id"] \notin DOMAIN patients
       THEN /\ eresp' = [op |-> "create_visit", code |-> 404, id |-> 0, required |-> <<>>]
            /\ UNCHANGED visits
       ELSE /\ Len(visits) < MaxVisits
            /\ visits' = Append(visits,
                   [patient_id |-> data["patient_id"],
                    symptoms |-> data["symptoms"],
                    triage_level |-> data["triage_level"]])
            /\ eresp' = [op |-> "create_visit", code |-> 201, id |-> Len(visits) + 1,
                         required |-> <<>>]
    /\ UNCHANGED <<ui_vars, pharmacy_vars, radiology_vars, coordinator_vars, patients, creating>>

(***************************************************************************)
(* Coordinator: the rest of sync_patient, which answers its caller         *)
(***************************************************************************)
\* The response reaches the create_patient that waits for it, if it still does.
Reply(caller, outcome) ==
    IF caller \in DOMAIN creating /\ creating[caller].pc = "wait"
    THEN Respond(caller, outcome)
    ELSE UNCHANGED emergency_vars

\* POST /sync/patient from a caller other than create_patient, up to the query.
sync_patient_query(data) ==
    /\ SyncQuery(data, 0)
    /\ UNCHANGED <<ui_vars, pharmacy_vars, radiology_vars, emergency_vars>>

\* sync_patient from the branch on the query's result to the 201, for the
\* request r that is past its query.
sync_patient_commit(r) ==
    /\ BagIn(r, sync)
    /\ LET obj == Upserted(r.loaded, r.data, now) IN
       /\ patient_index' = Flushed(r.loaded, obj)
       /\ cresp' = [op |-> "sync_patient", code |-> 201,
                    patient |-> patient_index'[obj.global_id]]
    /\ now' = now + 1
    /\ sync' = sync (-) SetToBag({r})
    /\ Reply(r.caller, "ok")
    /\ UNCHANGED <<ui_vars, pharmacy_vars, radiology_vars>>

\* db.session.commit() raises (the database is locked or gone): the session
\* is rolled back and the request answers 500.
sync_patient_error(r) ==
    /\ BagIn(r, sync)
    /\ cresp' = [op |-> "sync_patient", code |-> 500, patient |-> NoRow]
    /\ sync' = sync (-) SetToBag({r})
    /\ UNCHANGED <<patient_index, now>>
    /\ Reply(r.caller, "error")
    /\ UNCHANGED <<ui_vars, pharmacy_vars, radiology_vars>>

RECURSIVE ByLastUpdatedDesc(_)
\* order_by(PatientIndex.last_updated.desc())
ByLastUpdatedDesc(G) ==
    IF G = {} THEN <<>>
    ELSE LET g == CHOOSE x \in G :
                    \A y \in G : patient_index[x].last_updated >= patient_index[y].last_updated
         IN <<patient_index[g]>> \o ByLastUpdatedDesc(G \ {g})

\* GET /api/patients: the body of the 200
list_patients_api == ByLastUpdatedDesc(DOMAIN patient_index)

(***************************************************************************)
(* Coordinator pages: the read aggregations                                *)
(***************************************************************************)

\* A table as its rows with their ids, in id order.
WithIds(table) == [i \in DOMAIN table |-> [id |-> i] @@ table[i]]

\* order_by(created_at.desc()): rows are created in id order.
NewestFirst(s) == [i \in DOMAIN s |-> s[Len(s) + 1 - i]]

\* pharmacy GET /medications
list_medications ==
    [code |-> 200, json |-> WithIds(medications)]

\* pharmacy GET /prescriptions
list_prescriptions ==
    [code |-> 200,
     json |-> NewestFirst(
        [i \in DOMAIN prescriptions |->
            [id |-> i,
             patient_name |-> prescriptions[i].patient_name,
             medication |-> IF prescriptions[i].medication_id \in DOMAIN medications
                            THEN medications[prescriptions[i].medication_id].name
                            ELSE Null,
             quantity |-> prescriptions[i].quantity,
             status |-> prescriptions[i].status]])]

\* radiology GET /orders
list_orders ==
    [code |-> 200, json |-> NewestFirst(WithIds(orders))]

\* emergency GET /patients/<patient_id>/visits
list_visits(patient_id) ==
    IF patient_id \notin DOMAIN patients
    THEN [code |-> 404, json |-> <<>>]
    ELSE [code |-> 200,
          json |-> NewestFirst(SelectSeq(WithIds(visits),
                                         LAMBDA v : v.patient_id = patient_id))]

\* How a requests.get(url, timeout=5) of a page ends: the department's
\* handler answers; the department answers with a 5xx status; or the call
\* raises (connection refused, timeout).
CallOutcomes == {"answered", "status", "exception"}

\* try: resp = requests.get(...)
\*      if resp.status_code == 200: xs = resp.json()
\* except Exception as e: error = f"{message}: {e}"
\* with xs = [] and error = None before it. A page that only prints the
\* exception passes Null as its message.
Loaded(outcome, response, message) ==
    [call |-> outcome,
     code |-> IF outcome = "answered" THEN response.code
              ELSE IF outcome = "status" THEN 500 ELSE 0,
     list |-> IF outcome = "answered" /\ response.code = 200 THEN response.json ELSE <<>>,
     error |-> IF outcome = "exception" THEN message ELSE Null]

\* No call made: the collection and the error keep their initial values.
NotLoaded == [call |-> "none", code |-> 0, list |-> <<>>, error |-> Null]

\* The visits block of patient_detail and add_appointment: the exception is
\* printed, and the template gets visit_error=None.
VisitsOf(patient, outcome) ==
    IF patient.department = "emergency"
    THEN Loaded(outcome, list_visits(patient.local_patient_id), Null)
    ELSE NotLoaded

\* a.start_time < b.start_time
Earlier(a, b) ==
    LET x == <<a.year, a.month, a.day, a.hour, a.minute>>
        y == <<b.year, b.month, b.day, b.hour, b.minute>>
    IN \E i \in 1 .. 5 : x[i] < y[i] /\ \A j \in 1 .. (i - 1) : x[j] = y[j]

RECURSIVE ByStartTimeAsc(_)
\* order_by(Appointment.start_time.asc()); rows of equal start_time in id order
ByStartTimeAsc(A) ==
    IF A = {} THEN <<>>
    ELSE LET a == CHOOSE x \in A :
                    \A y \in A \ {x} :
                        \/ Earlier(appointments[x].start_time, appointments[y].start_time)
                        \/ /\ ~Earlier(appointments[y].start_time, appointments[x].start_time)
                           /\ x < y
         IN <<[id |-> a] @@ appointments[a]>> \o ByStartTimeAsc(A \ {a})

\* Appointment.query.filter_by(patient_global_id=...).order_by(start_time.asc()).all()
AppointmentsOf(global_id) ==
    ByStartTimeAsc({ a \in DOMAIN appointments : appointments[a].patient_global_id = global_id })

\* GET /patients/<global_id>/detail
patient_detail(global_id, outcome) ==
    /\ IF global_id \notin DOMAIN patient_index
       THEN view' = [op |-> "patient_detail", code |-> 302, parts |-> <<>>]
       ELSE view' = [op |-> "patient_detail", code |-> 200,
                     parts |-> <<VisitsOf(patient_index[global_id], outcome)>>,
                     patient |-> global_id,
                     appointments |-> AppointmentsOf(global_id),
                     appt_error |-> Null]
    /\ UNCHANGED <<appointments, pharmacy_vars, radiology_vars, emergency_vars, coordinator_vars>>

\* GET /pharmacy
pharmacy_view(med_outcome, rx_outcome) ==
    /\ view' = [op |-> "pharmacy_view", code |-> 200,
                parts |-> <<Loaded(med_outcome, list_medications, "Could not load medications"),
                            Loaded(rx_outcome, list_prescriptions, "Could not load prescriptions")>>]
    /\ UNCHANGED <<appointments, pharmacy_vars, radiology_vars, emergency_vars, coordinator_vars>>

\* GET /radiology
radiology_view(outcome) ==
    /\ view' = [op |-> "radiology_view", code |-> 200,
                parts |-> <<Loaded(outcome, list_orders, "Could not load orders")>>]
    /\ UNCHANGED <<appointments, pharmacy_vars, radiology_vars, emergency_vars, coordinator_vars>>

(***************************************************************************)
(* Coordinator pages: booking an appointment                               *)
(***************************************************************************)
MaxAppointments == 1

\* What the form field start_time can hold: nothing, a text of the shape
\* YYYY-MM-DDTHH:MM (an HTML datetime-local value) with the numbers written
\* in it, or a text of another shape.
StartTimeText(shape, nums) ==
    [shape |-> shape, year |-> nums[1], month |-> nums[2], day |-> nums[3],
     hour |-> nums[4], minute |-> nums[5]]

StartTimeTexts ==
    { StartTimeText("blank", <<0, 0, 0, 0, 0>>),
      StartTimeText("other", <<0, 0, 0, 0, 0>>),
      StartTimeText("iso", <<2026, 3, 1, 9, 30>>),
      StartTimeText("iso", <<2026, 2, 28, 16, 0>>),
      StartTimeText("iso", <<2026, 2, 29, 9, 30>>) }

AppointmentForms ==
    { Restrict([department |-> "radiology", start_time |-> t], S) :
        t \in StartTimeTexts, S \in SUBSET {"department", "start_time"} }

IsLeap(year) == year % 4 = 0 /\ (year % 100 # 0 \/ year % 400 = 0)

DaysInMonth(year, month) ==
    IF month = 2 THEN (IF IsLeap(year) THEN 29 ELSE 28)
    ELSE IF month \in {4, 6, 9, 11} THEN 30 ELSE 31

\* datetime.fromisoformat(text) returns: the text has the ISO shape and its
\* numbers are a date and a time of day. Otherwise it raises ValueError.
IsIsoFormat(text) ==
    /\ text.shape = "iso"
    /\ text.year \in 1 .. 9999
    /\ text.month \in 1 .. 12
    /\ text.day \in 1 .. DaysInMonth(text.year, text.month)
    /\ text.hour \in 0 .. 23
    /\ text.minute \in 0 .. 59

\* The datetime it returns.
fromisoformat(text) ==
    [year |-> text.year, month |-> text.month, day |-> text.day,
     hour |-> text.hour, minute |-> text.minute]

\* POST /patients/<global_id>/appointment written without the try around
\* fromisoformat: only a missing start_time is an error.
appt_error_RequiredOnly(form) ==
    IF "start_time" \notin DOMAIN form \/ form["start_time"].shape = "blank"
    THEN "Appointment date & time is required."
    ELSE Null

\* appt_error after the if/try block of add_appointment
appt_error(form) ==
    IF "start_time" \notin DOMAIN form \/ form["start_time"].shape = "blank"
    THEN "Appointment date & time is required."
    ELSE IF ~IsIsoFormat(form["start_time"])
    THEN "Could not create appointment"
    ELSE Null

\* The Appointment object add_appointment builds.
NewAppointment(patient, form) ==
    [patient_global_id |-> patient.global_id,
     department |-> IF Get(form, "department") \in {Null, Empty}
                    THEN patient.department ELSE form["department"],
     start_time |-> fromisoformat(form["start_time"]),
     status |-> "scheduled",
     notes |-> IF Get(form, "notes") \in {Null, Empty} THEN Null ELSE form["notes"]]

\* POST /patients/<global_id>/appointment
add_appointment(global_id, form, outcome) ==
    /\ IF global_id \notin DOMAIN patient_index
       THEN /\ view' = [op |-> "add_appointment", code |-> 302, parts |-> <<>>]
            /\ UNCHANGED appointments
       ELSE /\ IF appt_error(form) # Null
               THEN UNCHANGED appointments
               ELSE /\ Len(appointments) < MaxAppointments
                    /\ appointments' =
                          Append(appointments, NewAppointment(patient_index[global_id], form))
            /\ view' = [op |-> "add_appointment", code |-> 200,
                        parts |-> <<VisitsOf(patient_index[global_id], outcome)>>,
                        patient |-> global_id,
                        appointments |-> AppointmentsOf(global_id)',
                        appt_error |-> appt_error(form)]
    /\ UNCHANGED <<pharmacy_vars, radiology_vars, emergency_vars, coordinator_vars>>

EmergencyInit ==
    /\ patients = <<>>
    /\ visits = <<>>
    /\ creating = <<>>
    /\ eresp = [op |-> "none", code |-> 0, id |-> 0, required |-> <<>>]

CoordinatorInit ==
    /\ patient_index = <<>>
    /\ sync = EmptyBag
    /\ cresp = [op |-> "none", code |-> 0, patient |-> NoRow]
    /\ now = 1

UiInit ==
    /\ appointments = <<>>
    /\ view = [op |-> "none", code |-> 0, parts |-> <<>>]

\* The repository as it runs: the emergency service is the only caller of
\* the coordinator's sync endpoint.
Next ==
    \/ \E data \in PatientBodies : create_patient(data)
    \/ \E id \in 1 .. MaxPatients : create_patient_post(id)
    \/ \E id \in 1 .. MaxPatients : create_patient_unreachable(id)
    \/ \E id \in 1 .. MaxPatients : create_patient_timeout(id)
    \/ \E data \in VisitBodies : create_visit(data)
    \/ \E r \in BagToSet(sync) : sync_patient_commit(r)
    \/ \E r \in BagToSet(sync) : sync_patient_error(r)

\* The same without the visits: the patients of the emergency service and
\* their way into the index. create_visit writes the visits table only.
PatientSyncNext ==
    \/ \E data \in PatientBodies : create_patient(data)
    \/ \E id \in 1 .. MaxPatients : create_patient_post(id)
    \/ \E id \in 1 .. MaxPatients : create_patient_unreachable(id)
    \/ \E id \in 1 .. MaxPatients : create_patient_timeout(id)
    \/ \E r \in BagToSet(sync) : sync_patient_commit(r)
    \/ \E r \in BagToSet(sync) : sync_patient_error(r)

\* The emergency service on its own, the coordinator being down: every sync
\* call is refused. What create_visit does depends on the emergency store only.
EmergencyAloneNext ==
    \/ \E data \in PatientBodies : create_patient(data)
    \/ \E id \in 1 .. MaxPatients : create_patient_unreachable(id)
    \/ \E data \in VisitBodies : create_visit(data)

\* The coordinator's sync endpoint under any callers, handled concurrently.
CoordinatorNext ==
    \/ \E data \in SyncBodies : sync_patient_query(data)
    \/ \E r \in BagToSet(sync) : sync_patient_commit(r)
    \/ \E r \in BagToSet(sync) : sync_patient_error(r)

\* The same, the server handling one request at a time.
SequentialNext ==
    \/ \E data \in SyncBodies : sync = EmptyBag /\ sync_patient_query(data)
    \/ \E r \in BagToSet(sync) : sync_patient_commit(r)
    \/ \E r \in BagToSet(sync) : sync_patient_error(r)

\* The coordinator's pages over the running repository: patients come in
\* through the emergency service, staff add medications and orders (complete
\* bodies only, to keep the tables' contents few), and any department call
\* of a page may fail.
PagesNext ==
    \/ \E data \in PatientBodies : create_patient(data)
    \/ \E id \in 1 .. MaxPatients : create_patient_post(id)
    \/ \E r \in BagToSet(sync) : sync_patient_commit(r)
    \/ \E data \in VisitBodies : create_visit(data)
    \/ \E data \in { b \in MedicationBodies : HasAll(b, <<"name", "strength", "stock">>) } :
          add_medication(data)
    \/ \E data \in { b \in OrderBodies : HasAll(b, <<"patient_name", "modality", "body_part">>) } :
          create_order(data)
    \/ \E g \in 1 .. (MaxPatients + 1), outcome \in CallOutcomes : patient_detail(g, outcome)
    \/ \E m, r \in CallOutcomes : pharmacy_view(m, r)
    \/ \E outcome \in CallOutcomes : radiology_view(outcome)

\* Booking appointments for patients of the index: a few patients are synced
\* in, one request at a time, and the emergency service answers the page's
\* call for the visits.
AppointmentNext ==
    \/ \E data \in { b \in SyncBodies : /\ DOMAIN b = SyncKeys
                                         /\ b["name"] = "Ann"
                                         /\ b["local_patient_id"] = 1 } :
          sync = EmptyBag /\ sync_patient_query(data)
    \/ \E r \in BagToSet(sync) : sync_patient_commit(r)
    \/ \E g \in 1 .. (MaxSyncs + 1), form \in AppointmentForms :
          add_appointment(g, form, "answered")

(***************************************************************************)
(* Specifications: every service starts with empty tables.                 *)
(***************************************************************************)
Init ==
    /\ PharmacyInit
    /\ RadiologyInit
    /\ EmergencyInit
    /\ CoordinatorInit
    /\ UiInit

Spec == Init /\ [][Next]_vars

PatientSyncSpec == Init /\ [][PatientSyncNext]_vars

EmergencyAloneSpec == Init /\ [][EmergencyAloneNext]_vars

CoordinatorSpec == Init /\ [][CoordinatorNext]_vars

SequentialSpec == Init /\ [][SequentialNext]_vars

PharmacySpec == Init /\ [][PharmacyNext]_vars

RadiologySpec == Init /\ [][RadiologyNext]_vars

PagesSpec == Init /\ [][PagesNext]_vars

AppointmentSpec == Init /\ [][AppointmentNext]_vars

(***************************************************************************)
(* Claims about the pharmacy                                               *)
(***************************************************************************)

\* C2: a dispense request on a prescription that it finds already dispensed
\* does not decrement the stock of any medication again.
C2_DispensedOnce ==
    [][\A t \in Dispensers :
          (dispense_prescription_commit(t) /\ disp[t].status = "dispensed")
              => medications' = medications]_vars

\* C3: every medication has stock >= 0 in every reachable pharmacy state.
C3_StockNeverNegative ==
    \A m \in DOMAIN medications : medications[m].stock >= 0

\* C4: a dispense request that finds stock < quantity answers 400, writes no
\* pharmacy row and is over: the worker holds nothing it would commit later.
C4_InsufficientStockRejected ==
    [][\A t \in Dispensers, rx_id \in DOMAIN prescriptions :
          (/\ dispense_prescription_check(t, rx_id)
           /\ medications[prescriptions[rx_id].medication_id].stock
                  < prescriptions[rx_id].quantity)
              => /\ presp' = [op |-> "dispense_prescription", code |-> 400]
                 /\ medications' = medications
                 /\ prescriptions' = prescriptions
                 /\ disp' = disp]_vars

\* C4's case: the last response is the 400 of a dispense, and a prescription
\* that is still new asks for more than its medication's stock.
C4_Witness ==
    /\ presp = [op |-> "dispense_prescription", code |-> 400]
    /\ \E rx_id \in DOMAIN prescriptions :
          /\ prescriptions[rx_id].status = "new"
          /\ medications[prescriptions[rx_id].medication_id].stock
                 < prescriptions[rx_id].quantity
          /\ medications[prescriptions[rx_id].medication_id].stock >= 0

\* C13: a dispense that has passed the stock check and has not written yet
\* keeps no other dispense from passing the stock check on the same, unwritten
\* stock, and its own write stays due: two concurrent dispenses can both be
\* past the stock check before either writes (C13_Witness is the over-dispense
\* this ends in).
C13_ChecksNotSerialized ==
    \A t, u \in Dispensers :
        (t # u /\ disp[t].pc = "commit" /\ disp[u].pc = "idle") =>
            /\ ENABLED dispense_prescription_commit(t)
            /\ \A rx_id \in DOMAIN prescriptions :
                  prescriptions[rx_id].quantity
                        <= medications[prescriptions[rx_id].medication_id].stock
                     => ENABLED (/\ dispense_prescription_check(u, rx_id)
                                 /\ disp'[u].pc = "commit")

\* Two prescriptions of one medication are both dispensed, every worker is
\* done, and the two quantities sum to more than any stock the medication
\* can have been added with: one of the two decrements is lost.
C13_Witness ==
    /\ \A t \in Dispensers : disp[t].pc = "idle"
    /\ \E a, b \in DOMAIN prescriptions :
          /\ a # b
          /\ prescriptions[a].status = "dispensed"
          /\ prescriptions[b].status = "dispensed"
          /\ prescriptions[a].medication_id = prescriptions[b].medication_id
          /\ \A s \in Stocks \cup {0} :
                prescriptions[a].quantity + prescriptions[b].quantity > s
          /\ medications[prescriptions[a].medication_id].stock >= 0

\* The bodies of POST /prescriptions that carry every required key.
CompletePrescriptionBodies ==
    { data \in PrescriptionBodies : HasAll(data, PrescriptionRequired) }

\* C17: every prescription row refers to a medication row after every step
\* (there is no prescription at the start): a POST /prescriptions with all its keys and a medication_id
\* that no medication has answers 404 and adds no row, and no step removes
\* a medication.
C17_PrescriptionsReferToMedications ==
    [][/\ \A rx_id \in DOMAIN prescriptions' :
             prescriptions'[rx_id].medication_id \in DOMAIN medications'
       /\ \A m \in DOMAIN medications : m \in DOMAIN medications'
       /\ presp'.op = "create_prescription" =>
             \A data \in CompletePrescriptionBodies :
                (/\ \A m \in DOMAIN medications : data["medication_id"] # m
                 /\ create_prescription(data))
                    => /\ presp' = [op |-> "create_prescription", code |-> 404]
                       /\ prescriptions' = prescriptions]_vars

\* C17's case: a prescription for an unknown medication has just been
\* refused with 404, while a prescription of the one medication there is has
\* been dispensed.
C17_Witness ==
    /\ presp = [op |-> "create_prescription", code |-> 404]
    /\ Len(medications) = 1
    /\ \E rx_id \in DOMAIN prescriptions :
          /\ prescriptions[rx_id].status = "dispensed"
          /\ prescriptions[rx_id].medication_id = 1

(***************************************************************************)
(* Claims about radiology                                                  *)
(***************************************************************************)

\* C9: completing an order that is already completed, with a report in the
\* body, answers 200, stores that report and leaves the status completed;
\* and no step moves a completed order back to ordered.
C9_CompleteIdempotent ==
    [][/\ \A order_id \in DOMAIN orders, body \in CompleteBodies :
            (/\ complete_order(order_id, body)
             /\ orders[order_id].status = "completed"
             /\ "report" \in DOMAIN body)
                => /\ rresp' = [op |-> "complete_order", code |-> 200]
                   /\ orders'[order_id].report = body["report"]
                   /\ orders'[order_id].status = "completed"
       /\ \A order_id \in DOMAIN orders :
            orders[order_id].status = "completed"
                => /\ order_id \in DOMAIN orders'
                   /\ orders'[order_id].status = "completed"]_vars

\* C9's case: a completion has answered 200 and the order, completed, carries
\* the report it was sent.
C9_Witness ==
    /\ rresp = [op |-> "complete_order", code |-> 200]
    /\ \E order_id \in DOMAIN orders :
          /\ orders[order_id].status = "completed"
          /\ orders[order_id].report = "fracture"

(***************************************************************************)
(* Claims about the coordinator's patient index                            *)
(***************************************************************************)
Key(x) == <<x["local_patient_id"], x["department"]>>

\* A table without its last_updated column.
WithoutLastUpdated(table) ==
    [g \in DOMAIN table |-> [table[g] EXCEPT !.last_updated = 0]]

\* The row holds what the body says.
HoldsPayload(row, data) ==
    /\ Key(row) = Key(data)
    /\ row.name = data["name"]
    /\ row.dob = Get(data, "dob")
    /\ row.contact_info = Get(data, "contact_info")

\* C1: patient_index holds at most one row for each (local_patient_id,
\* department) pair, in every state any interleaving of sync requests reaches.
C1_OneRowPerKey ==
    \A g, h \in DOMAIN patient_index :
        g # h => Key(patient_index[g]) # Key(patient_index[h])

\* C5: when the request handled last answered 201 with a row that holds this
\* request's payload, and requests are handled one at a time, this request's
\* commit leaves exactly one row for the key, holding the payload, and
\* changes nothing of the table but last_updated.
C5_SyncIdempotent ==
    [][\A r \in BagToSet(sync) :
          (/\ sync_patient_commit(r)
           /\ cresp.code = 201
           /\ HoldsPayload(cresp.patient, r.data))
              => /\ Cardinality({ g \in DOMAIN patient_index' :
                        Key(patient_index'[g]) = Key(r.data) }) = 1
                 /\ \A g \in DOMAIN patient_index' :
                        Key(patient_index'[g]) = Key(r.data)
                            => HoldsPayload(patient_index'[g], r.data)
                 /\ WithoutLastUpdated(patient_index') = WithoutLastUpdated(patient_index)]_vars

\* C5's case: the first request has answered 201 with the row it wrote, and
\* the second, with the same payload, has found that row and is about to
\* commit.
C5_Witness ==
    /\ cresp.code = 201
    /\ \E r \in BagToSet(sync) :
          /\ HoldsPayload(cresp.patient, r.data)
          /\ r.loaded = cresp.patient
          /\ patient_index[r.loaded.global_id] = r.loaded

\* C8: the commit of a sync leaves a row for its key and leaves every row of
\* another key as it was; no row disappears.
C8_OtherKeysUntouched ==
    [][\A r \in BagToSet(sync) :
          sync_patient_commit(r)
              => /\ \E g \in DOMAIN patient_index' : Key(patient_index'[g]) = Key(r.data)
                 /\ \A g \in DOMAIN patient_index :
                        Key(patient_index[g]) # Key(r.data)
                            => /\ g \in DOMAIN patient_index'
                               /\ patient_index'[g] = patient_index[g]]_vars

\* C8's case: two syncs of one department and two local ids have left two rows.
C8_Witness ==
    /\ Len(patient_index) = 2
    /\ patient_index[1].department = patient_index[2].department
    /\ patient_index[1].local_patient_id # patient_index[2].local_patient_id
    /\ sync = EmptyBag

\* C15: requests being handled one at a time, the commit of a sync whose key
\* is absent appends one row that holds the payload under a global_id no
\* other row has; the commit of a sync whose key is present sets name, dob,
\* contact_info (null for an optional field the body lacks) and last_updated
\* of that row, leaves its global_id, local_patient_id and department, and
\* adds no row; and no commit changes the global_id of a row.
C15_SyncFrame ==
    [][\A r \in BagToSet(sync) :
          sync_patient_commit(r)
              => /\ \A g \in DOMAIN patient_index :
                        /\ g \in DOMAIN patient_index'
                        /\ patient_index'[g].global_id = patient_index[g].global_id
                 /\ IF \A g \in DOMAIN patient_index : Key(patient_index[g]) # Key(r.data)
                    THEN /\ Len(patient_index') = Len(patient_index) + 1
                         /\ LET new == patient_index'[Len(patient_index')] IN
                            /\ HoldsPayload(new, r.data)
                            /\ new.last_updated = now
                            /\ \A g \in DOMAIN patient_index' :
                                   g # Len(patient_index')
                                      => patient_index'[g].global_id # new.global_id
                    ELSE /\ Len(patient_index') = Len(patient_index)
                         /\ \A g \in DOMAIN patient_index :
                               Key(patient_index[g]) = Key(r.data)
                                  => patient_index'[g] =
                                        [patient_index[g] EXCEPT
                                            !.name = r.data["name"],
                                            !.dob = Get(r.data, "dob"),
                                            !.contact_info = Get(r.data, "contact_info"),
                                            !.last_updated = now]]_vars

\* C15's case: the only row of the index has been written a second time, by
\* a sync whose body carries no dob, and its dob is null.
C15_Witness ==
    /\ Len(patient_index) = 1
    /\ sync = EmptyBag
    /\ cresp.code = 201
    /\ cresp.patient = patient_index[1]
    /\ patient_index[1].global_id = 1
    /\ patient_index[1].last_updated > 1
    /\ patient_index[1].dob = Null

(***************************************************************************)
(* Claims about the emergency service                                      *)
(***************************************************************************)
\* The entries of GET /api/patients for emergency patient id under its name.
Entries(id) ==
    { k \in DOMAIN list_patients_api :
        /\ list_patients_api[k].department = "emergency"
        /\ list_patients_api[k].local_patient_id = id
        /\ list_patients_api[k].name = patients[id].name }

\* C6: a create_patient whose sync call failed (another status than 200 or
\* 201, or an exception: unreachable, timeout) has answered 201, its patient
\* row is in the store, and the service has no step left to take for it.
C6_SyncFailureTolerated ==
    \A id \in DOMAIN creating :
        (creating[id].pc = "done" /\ creating[id].sync \in {"error", "exception", "timeout"})
            => /\ creating[id].code = 201
               /\ id \in DOMAIN patients
               /\ ~ENABLED create_patient_post(id)
               /\ ~ENABLED create_patient_unreachable(id)
               /\ ~ENABLED create_patient_timeout(id)

\* C6's case: a request is over whose sync call raised, and the index holds
\* no row.
C6_Witness ==
    /\ \E id \in DOMAIN creating :
          creating[id].pc = "done" /\ creating[id].sync = "exception"
    /\ patient_index = <<>>

\* C7 as claimed: once create_patient has answered 201 for local id i,
\* GET /api/patients holds exactly one entry for (emergency, i) with the name.
C7_EndToEnd ==
    \A id \in DOMAIN creating :
        creating[id].code = 201 => Cardinality(Entries(id)) = 1

\* C7 as amended: the same, for a create_patient whose sync call was answered
\* 200 or 201.
C7_EndToEndWhenSynced ==
    \A id \in DOMAIN creating :
        (creating[id].code = 201 /\ creating[id].sync = "ok")
            => Cardinality(Entries(id)) = 1

\* C7's case: both patients created, both synced.
C7_Witness ==
    /\ Len(creating) = 2
    /\ \A id \in DOMAIN creating : creating[id].code = 201 /\ creating[id].sync = "ok"

\* The index rows of local patient id of the emergency service.
RowsOf(id) ==
    { g \in DOMAIN patient_index :
        /\ patient_index[g].department = DEPARTMENT_NAME
        /\ patient_index[g].local_patient_id = id }

\* The sync requests of create_patient request id the coordinator holds.
HeldOf(id) == { r \in BagToSet(sync) : r.caller = id }

\* C14 as claimed: a create_patient makes one sync call and no other, and
\* once that call has failed (another status than 200 or 201, or an
\* exception) the index has no row of its patient, in that state and in
\* every later one.
C14_FailedSyncNeverIndexed ==
    \A id \in DOMAIN creating :
        /\ creating[id].pc \in {"wait", "done"}
              => /\ ~ENABLED create_patient_post(id)
                 /\ ~ENABLED create_patient_unreachable(id)
        /\ (creating[id].pc = "done" /\ creating[id].sync \in {"error", "exception", "timeout"})
              => RowsOf(id) = {}

\* C14 as amended: a create_patient makes one sync call and no other, so the
\* coordinator sees at most one request of it; once that call has failed
\* without the coordinator holding the request any more (it never got there,
\* or was answered with another status than 200 or 201), the index has no
\* row of its patient, in that state and in every later one.
C14_FailedSyncNeverIndexedUnlessHeld ==
    \A id \in DOMAIN creating :
        /\ creating[id].pc \in {"wait", "done"}
              => /\ ~ENABLED create_patient_post(id)
                 /\ ~ENABLED create_patient_unreachable(id)
        /\ \A r \in HeldOf(id) : CopiesIn(r, sync) = 1
        /\ Cardinality(HeldOf(id)) + Cardinality(RowsOf(id)) <= 1
        /\ (creating[id].pc = "done" /\ creating[id].sync \in {"error", "exception"})
              => (RowsOf(id) = {} /\ HeldOf(id) = {})

\* C14's case: the sync call of the first patient was answered with an error
\* status, the second patient was created and synced after it, and the index
\* holds the second patient only.
C14_Witness ==
    /\ Len(creating) = 2
    /\ creating[1].pc = "done" /\ creating[1].sync = "error"
    /\ creating[2].pc = "done" /\ creating[2].sync = "ok"
    /\ RowsOf(1) = {}
    /\ RowsOf(2) # {}
    /\ sync = EmptyBag

\* C16: the emergency service being the only caller of the sync endpoint,
\* every index row of department "emergency" mirrors a patient of the
\* emergency store: the store holds a patient under the row's
\* local_patient_id, with the row's name, dob and contact_info. No such row
\* is there before its patient is.
C16_IndexMirrorsPatients ==
    \A g \in DOMAIN patient_index :
        patient_index[g].department = "emergency"
            => /\ patient_index[g].local_patient_id \in DOMAIN patients
               /\ LET patient == patients[patient_index[g].local_patient_id] IN
                  /\ patient_index[g].name = patient.name
                  /\ patient_index[g].dob = patient.dob
                  /\ patient_index[g].contact_info = patient.contact_info

\* C16's case: two patients are in the index, one with a dob and one
\* without, and the coordinator holds no request.
C16_Witness ==
    /\ Len(patient_index) = 2
    /\ \A g \in DOMAIN patient_index : patient_index[g].department = "emergency"
    /\ \E g \in DOMAIN patient_index : patient_index[g].dob # Null
    /\ \E g \in DOMAIN patient_index : patient_index[g].dob = Null
    /\ sync = EmptyBag

\* C10: a POST /visits whose body lacks a required key answers 400 with the
\* required keys and writes nothing to the emergency store.
C10_MissingFieldRejected ==
    [][\A data \in VisitBodies :
          (/\ create_visit(data)
           /\ \E k \in {"patient_id", "symptoms", "triage_level"} : k \notin DOMAIN data)
              => /\ eresp' = [op |-> "create_visit", code |-> 400, id |-> 0,
                              required |-> <<"patient_id", "symptoms", "triage_level">>]
                 /\ UNCHANGED <<patients, visits, creating>>]_vars

\* C10's case: the 400 of a POST /visits, a patient being there to visit.
C10_Witness ==
    /\ eresp.op = "create_visit"
    /\ eresp.code = 400
    /\ patients # <<>>
    /\ visits = <<>>

(***************************************************************************)
(* Claims about the coordinator's pages                                    *)
(***************************************************************************)

\* C11: on every page that aggregates from a department (visits in the
\* patient detail, medications and prescriptions in the pharmacy page,
\* orders in the radiology page), a department call that returns a status
\* other than 200 or raises leaves the page with an empty collection and a
\* non-empty error string, and the page is still rendered with 200.
C11_FailedCallReported ==
    view.op \in {"patient_detail", "pharmacy_view", "radiology_view"} =>
        \A i \in DOMAIN view.parts :
            LET part == view.parts[i] IN
            (part.call = "exception" \/ (part.call \in {"answered", "status"} /\ part.code # 200)) =>
                /\ view.code = 200
                /\ part.list = <<>>
                /\ part.error \notin {Null, Empty}

\* C12: an appointment request for a patient of the index whose start_time is
\* missing or malformed renders an error string and leaves the appointments
\* table as it was; one whose start_time is well-formed inserts exactly one
\* row, with status "scheduled" and the patient's global_id, and changes no
\* other row.
C12_AppointmentValidated ==
    [][(view'.op = "add_appointment" /\ view'.code = 200) =>
          \A g \in DOMAIN patient_index, outcome \in CallOutcomes :
             (g = view'.patient /\ view'.parts[1].call \in {outcome, "none"}) =>
                \A form \in AppointmentForms :
                   add_appointment(g, form, outcome) =>
                      IF \/ "start_time" \notin DOMAIN form
                         \/ form["start_time"].shape # "iso"
                         \/ ~IsIsoFormat(form["start_time"])
                      THEN /\ view'.appt_error \notin {Null, Empty}
                           /\ appointments' = appointments
                      ELSE /\ Len(appointments') = Len(appointments) + 1
                           /\ SubSeq(appointments', 1, Len(appointments)) = appointments
                           /\ appointments'[Len(appointments')].status = "scheduled"
                           /\ appointments'[Len(appointments')].patient_global_id
                                 = patient_index[g].global_id
                           /\ view'.appt_error = Null]_vars

\* A malformed start_time has just been refused for a patient who already
\* has an appointment booked.
C12_Witness ==
    /\ view.op = "add_appointment"
    /\ view.code = 200
    /\ view.appt_error = "Could not create appointment"
    /\ Len(view.appointments) = 1
    /\ view.appointments[1].status = "scheduled"

====
